---- MODULE Spec2Model ----
(***************************************************************************)
(* Model of the career-advisor REST service: the User schema and its       *)
(* pre-save password hook, the `protect` bearer-token middleware, and the  *)
(* signup / login / profile / protected / logout route handlers.           *)
(*                                                                         *)
(* Strings whose content the code inspects (emails, passwords, names) are  *)
(* sequences of one-character strings; the empty sequence is the falsy     *)
(* value of a field that is absent or "".                                  *)
(***************************************************************************)
EXTENDS Integers, Sequences, FiniteSets, TLC

VARIABLES
    env,          \* process.env of the running process: JWT_SECRET and MONGO_URI
    JWT_SECRET,   \* the process-wide signing secret read at startup
    users,        \* the User collection, in insertion order; _id = position
    now,          \* Date.now(), in clock ticks
    res,          \* the response to the latest request, with what the request carried
    plain,        \* history: the password each account was signed up with, by _id
    issued,       \* history: the token signup or login returned last, and when
    loggedOut,    \* history: that token has since been presented to a logout answered 200
    inflight,     \* the signup requests between their findOne and their save
    client,       \* the browser: localStorage, the App's state, the route, what is mounted
    cleanup       \* a completion text and what getAIResponse makes of it

\* the variables that the routes served one request at a time leave alone
aux == <<inflight, client, cleanup>>

vars == <<env, JWT_SECRET, users, now, res, plain, issued, loggedOut, aux>>

-----------------------------------------------------------------------------
(* Bounds of the exploration *)

\* accounts the collection may hold before signups stop being explored
MaxUsers == 2
\* fields in which an explored signup body may differ from the base body
MaxDeviations == 1
\* signup requests that may be between findOne and save at once
MaxInflight == 2
\* length of the explored completion texts
MaxText == 6

-----------------------------------------------------------------------------
(* Program constants *)

\* password: minlength
MinPasswordLength == 6
\* age: min, max
MinAge == 13
MaxAge == 100
\* jwt.sign(..., { expiresIn: '1h' }), in seconds
expiresIn == 3600
\* bytes of a password that bcrypt.hash reads
BCRYPT_MAX_INPUT == 72
\* the ages the signup form lets through (Signup.jsx line 42)
FormMinAge == 13
FormMaxAge == 100
\* min and max of the form's age input (Signup.jsx lines 222-223)
InputMinAge == 13
InputMaxAge == 100

-----------------------------------------------------------------------------
(* Strings *)

\* a run of n copies of the character c
Rep(c, n) == [i \in 1..n |-> c]

\* String.prototype.toLowerCase on one character of the alphabet in use
LowerChar(c) == IF c = "A" THEN "a" ELSE IF c = "B" THEN "b" ELSE c

toLowerCase(s) == [i \in DOMAIN s |-> LowerChar(s[i])]

\* a schema without the option `lowercase: true`
lowercaseOff(s) == s

\* the schema option `lowercase: true`
lowercase(s) == toLowerCase(s)

RECURSIVE trimStart(_)
trimStart(s) == IF s # <<>> /\ Head(s) = " " THEN trimStart(Tail(s)) ELSE s

RECURSIVE trimEnd(_)
trimEnd(s) ==
    IF s # <<>> /\ s[Len(s)] = " " THEN trimEnd(SubSeq(s, 1, Len(s) - 1)) ELSE s

\* String.prototype.trim, the schema option `trim: true`
trim(s) == trimEnd(trimStart(s))

\* the schema's email pattern /.+@.+\..+/ (unanchored)
emailMatch(s) ==
    \E i, j \in DOMAIN s :
        /\ s[i] = "@" /\ i > 1
        /\ s[j] = "." /\ j > i + 1 /\ j < Len(s)

-----------------------------------------------------------------------------
(* Request inputs *)

Email_a     == <<"a", "@", "x", ".", "c">>
Email_A     == <<"A", "@", "x", ".", "c">>         \* the same address in another case
Email_pad   == <<" ", "a", "@", "x", ".", "c">>    \* the same address, padded
Email_b     == <<"b", "@", "x", ".", "c">>
Email_bad   == <<"a", "x", ".", "c">>              \* not of email shape
NoString    == <<>>                                \* absent or ""

EmailInputs == {NoString, Email_a, Email_A, Email_pad, Email_b, Email_bad}

Pw_short    == <<"s", "e", "c">>
Pw_secret   == <<"s", "e", "c", "r", "e", "t">>
Pw_secreT   == <<"s", "e", "c", "r", "e", "T">>
\* two passwords longer than bcrypt's input, alike in all but the last character
Pw_longB    == Rep("p", BCRYPT_MAX_INPUT) \o <<"b">>
Pw_longC    == Rep("p", BCRYPT_MAX_INPUT) \o <<"c">>

Name_blank  == <<" ">>
Name_Ann    == <<"A", "n", "n">>
Name_Lee    == <<"L", "e", "e">>

\* the optional age of a signup body: absent, a number, or a string that is no number
AgeUndef    == [t |-> "undefined", v |-> 0]
AgeNum(n)   == [t |-> "number", v |-> n]
AgeNaN      == [t |-> "NaN", v |-> 0]

\* the base signup body; the bodies explored differ from it in a bounded number of fields
BaseBody ==
    [email |-> Email_a, password |-> Pw_secret, firstName |-> Name_Ann,
     lastName |-> Name_Lee, age |-> AgeUndef]

AllBodies ==
    [email : EmailInputs,
     password : {NoString, Pw_short, Pw_secret, Pw_longB},
     firstName : {NoString, Name_blank, Name_Ann},
     lastName : {NoString, Name_Lee},
     age : {AgeUndef, AgeNum(0), AgeNum(MinAge - 1), AgeNum(MinAge),
            AgeNum(MaxAge + 1), AgeNaN}]

Deviations(b) == Cardinality({f \in DOMAIN b : b[f] # BaseBody[f]})

SignupBodies == {b \in AllBodies : Deviations(b) <= MaxDeviations}

LoginBodies ==
    [email : EmailInputs,
     password : {NoString, Pw_secret, Pw_secreT, Pw_longB, Pw_longC}]

-----------------------------------------------------------------------------
(* models/User: the schema, its validators and its pre-save hook *)

\* the password path of a document: the plain string the request supplied, or what
\* bcrypt.hash made of it
Plain(s) == [hashed |-> FALSE, salt |-> 0, key |-> s]

\* bcrypt.genSalt(10): a random salt, a value no earlier call has returned
genSalt(coll) == Len(coll) + 1

\* bcrypt.hash(s, salt): a one-way image of the salt and the first 72 bytes of s
bcryptHash(s, salt) ==
    [hashed |-> TRUE, salt |-> salt,
     key |-> SubSeq(s, 1, IF Len(s) < BCRYPT_MAX_INPUT THEN Len(s) ELSE BCRYPT_MAX_INPUT)]

\* bcrypt.compare(s, hash): hashes s under the salt embedded in hash and compares
bcryptCompare(s, hash) == hash.hashed /\ bcryptHash(s, hash.salt) = hash

\* the setters of the email path (lowercase, trim), run on documents and on query filters
emailSetter(s) == trim(lowercase(s))

\* line 87 of the signup handler: age ? parseInt(age) : undefined
parseAge(age) ==
    IF age.t = "undefined" \/ (age.t = "number" /\ age.v = 0) THEN AgeUndef ELSE age

\* new User({...}): the schema's setters and defaults applied to the fields given
NewUser(body) ==
    [email |-> emailSetter(body.email),
     password |-> Plain(body.password),
     firstName |-> trim(body.firstName),
     lastName |-> trim(body.lastName),
     age |-> parseAge(body.age),
     school |-> NoString,
     grade |-> NoString,
     achievements |-> <<>>,
     academicProgress |-> <<>>,
     interests |-> <<>>,
     universityApplications |-> <<>>,
     applicationProgress |-> [averageCompletion |-> 0]]

\* the validators of the schema: the messages of the paths that fail
validate(doc) ==
    (IF doc.email = NoString THEN {"Email is required"}
     ELSE IF ~emailMatch(doc.email) THEN {"Please enter a valid email address"} ELSE {})
    \cup
    (IF doc.password.key = NoString THEN {"Password is required"}
     ELSE IF Len(doc.password.key) < MinPasswordLength
          THEN {"Password must be at least 6 characters long"} ELSE {})
    \cup
    (IF doc.firstName = NoString THEN {"First name is required"} ELSE {})
    \cup
    (IF doc.lastName = NoString THEN {"Last name is required"} ELSE {})
    \cup
    (IF doc.age.t = "NaN" THEN {"Cast to Number failed for value NaN at path age"}
     ELSE IF doc.age.t = "number" /\ doc.age.v < MinAge THEN {"Must be at least 13 years old"}
     ELSE IF doc.age.t = "number" /\ doc.age.v > MaxAge THEN {"Invalid age"}
     ELSE {})

\* a pre-save hook that takes the password for unmodified and leaves it as it is
preSaveSkipped(doc, salt) == doc

\* UserSchema.pre('save'): a new document's password is modified, so it is hashed
preSave(doc, salt) ==
    IF doc.password.key # NoString
    THEN [doc EXCEPT !.password = bcryptHash(doc.password.key, salt)]
    ELSE doc

\* UserSchema.methods.comparePassword
comparePassword(user, candidatePassword) ==
    IF user.password.key # NoString
    THEN bcryptCompare(candidatePassword, user.password)
    ELSE FALSE

-----------------------------------------------------------------------------
(* The User collection *)

\* _id of the account at position i
Ids(coll) == 1..Len(coll)

\* User.findOne({ email }): the filter is cast through the path's setters; 0 is null.
\* The unique index lets at most one document match.
findOne(coll, email) ==
    IF \E i \in Ids(coll) : coll[i].email = emailSetter(email)
    THEN CHOOSE i \in Ids(coll) : coll[i].email = emailSetter(email)
    ELSE 0

\* User.findById(id)
findById(coll, id) == IF id \in Ids(coll) THEN id ELSE 0

\* an index on email that is not unique
duplicateKeyUnindexed(coll, doc) == FALSE

\* the unique index on email: the insert of doc is refused with code 11000
duplicateKey(coll, doc) == \E i \in Ids(coll) : coll[i].email = doc.email

-----------------------------------------------------------------------------
(* jsonwebtoken *)

\* the clock readings explored, in milliseconds: around the issue of a token and around
\* its expiry one hour later
Hour == expiresIn * 1000
Instants == {0, 500, Hour - 60000, Hour - 500, Hour, Hour + 500, Hour + 60000}

\* Math.floor(Date.now() / 1000)
clockTimestamp(t) == t \div 1000

\* process.env.JWT_SECRET: unset, or a configured secret
EnvUnset   == "undefined"
EnvSecrets == {EnvUnset, "k1"}
\* keys a token may be signed under
Keys       == {"supersecretjwtkey", "k1"}

\* line 14: process.env.JWT_SECRET || 'supersecretjwtkey'
loadSecret(secret) == IF secret = EnvUnset THEN "supersecretjwtkey" ELSE secret

\* the environments a process may be started in
Envs == [JWT_SECRET : EnvSecrets, MONGO_URI : {EnvUnset, "mongodb://db"}]

\* the HS256 signature of a payload under a key
HS256(payload, key) ==
    [id |-> payload.id, iat |-> payload.iat, exp |-> payload.exp, key |-> key]

\* jwt.sign given the number of documents in place of the new document's _id
jwtSignWrongId(id, secret, t) ==
    LET payload == [id |-> id - 1, iat |-> clockTimestamp(t),
                    exp |-> clockTimestamp(t) + expiresIn]
    IN  [kind |-> "jwt", payload |-> payload, sig |-> HS256(payload, secret)]

\* jwt.sign({ id }, secret, { expiresIn: '1h' }) at clock reading t
jwtSign(id, secret, t) ==
    LET payload == [id |-> id, iat |-> clockTimestamp(t),
                    exp |-> clockTimestamp(t) + expiresIn]
    IN  [kind |-> "jwt", payload |-> payload, sig |-> HS256(payload, secret)]

\* jwt.verify that takes the token to expire one second late (> for >=)
jwtVerifyLate(token, secret, t) ==
    IF token.kind # "jwt" THEN [err |-> "jwt malformed", decoded |-> [id |-> 0]]
    ELSE IF token.sig # HS256(token.payload, secret)
         THEN [err |-> "invalid signature", decoded |-> [id |-> 0]]
    ELSE IF clockTimestamp(t) > token.payload.exp
         THEN [err |-> "jwt expired", decoded |-> [id |-> 0]]
    ELSE [err |-> "", decoded |-> token.payload]

\* jwt.decode in place of jwt.verify: the signature is not checked
jwtVerifyNoSignature(token, secret, t) ==
    IF token.kind # "jwt" THEN [err |-> "jwt malformed", decoded |-> [id |-> 0]]
    ELSE IF clockTimestamp(t) >= token.payload.exp
         THEN [err |-> "jwt expired", decoded |-> [id |-> 0]]
    ELSE [err |-> "", decoded |-> token.payload]

\* jwt.verify(token, secret) at clock reading t: the error it throws, or "" and the payload
jwtVerify(token, secret, t) ==
    IF token.kind # "jwt" THEN [err |-> "jwt malformed", decoded |-> [id |-> 0]]
    ELSE IF token.sig # HS256(token.payload, secret)
         THEN [err |-> "invalid signature", decoded |-> [id |-> 0]]
    ELSE IF clockTimestamp(t) >= token.payload.exp
         THEN [err |-> "jwt expired", decoded |-> [id |-> 0]]
    ELSE [err |-> "", decoded |-> token.payload]

\* values of the token variable that are no JWT
NoToken    == [kind |-> "undefined"]     \* split(' ')[1] of a header with one word
EmptyToken == [kind |-> "empty"]         \* the "" between two spaces
Garbage    == [kind |-> "garbage"]       \* a string that is no JWT

-----------------------------------------------------------------------------
(* protect: the bearer-token middleware *)

W_Bearer  == <<"B", "e", "a", "r", "e", "r">>
W_BearerX == <<"B", "e", "a", "r", "e", "r", "X">>
W_bearer  == <<"b", "e", "a", "r", "e", "r">>
W_Basic   == <<"B", "a", "s", "i", "c">>

\* String.prototype.startsWith
startsWith(s, prefix) ==
    Len(s) >= Len(prefix) /\ SubSeq(s, 1, Len(prefix)) = prefix

\* the token variable after lines 40-44; a header is the sequence of its words
\* (authorization.split(' ')), <<>> when the request has no such header
extractToken(authorization) ==
    IF authorization # <<>> /\ startsWith(authorization[1], W_Bearer)
    THEN IF Len(authorization) >= 2 THEN authorization[2] ELSE NoToken
    ELSE NoToken

\* protect with verification failures passed on to the handler instead of answered
protectNextOnFailure(authorization, secret, t) ==
    LET token == extractToken(authorization)
        v     == jwtVerify(token, secret, t)
    IN  IF token.kind \in {"undefined", "empty"}
        THEN [nexts |-> 0, sends |-> 1, status |-> 401,
              message |-> "No token, authorization denied", user |-> [id |-> 0]]
        ELSE [nexts |-> 1, sends |-> 0, status |-> 0, message |-> "", user |-> v.decoded]

\* protect(req, res, next): how often it calls next, how often it sends a response,
\* the response it sends and the req.user it attaches
protect(authorization, secret, t) ==
    LET token == extractToken(authorization)
        v     == jwtVerify(token, secret, t)
    IN  IF token.kind \in {"undefined", "empty"}
        THEN [nexts |-> 0, sends |-> 1, status |-> 401,
              message |-> "No token, authorization denied", user |-> [id |-> 0]]
        ELSE IF v.err = ""
        THEN [nexts |-> 1, sends |-> 0, status |-> 0, message |-> "", user |-> v.decoded]
        ELSE [nexts |-> 0, sends |-> 1, status |-> 401,
              message |-> "Token is not valid", user |-> [id |-> 0]]

-----------------------------------------------------------------------------
(* Responses *)

NoView == [id |-> 0]

\* the fields of res.json(...) and, after them, what the request was and how it was
\* handled: req (body or Authorization header), at (the clock reading), dup (an account
\* with this email, letter case ignored, existed on arrival), nexts / sends (what
\* protect did), reqUser (the id protect attached as req.user), handler (the route's
\* handler ran)
Response(route, status, message, error, token, user, req, t, dup, p, handler) ==
    [route |-> route, status |-> status, message |-> message, error |-> error,
     token |-> token, user |-> user, req |-> req, at |-> t, dup |-> dup,
     nexts |-> p.nexts, sends |-> p.sends, reqUser |-> p.user.id, handler |-> handler]

\* a route without middleware
Public == [nexts |-> 0, sends |-> 0, user |-> [id |-> 0]]

NoResponse ==
    Response("none", 0, "", {}, NoToken, NoView, <<>>, 0, FALSE, Public, FALSE)

\* the user object of the signup response (lines 102-110)
SignupViewFields == {"id", "email", "firstName", "lastName", "age", "school", "grade"}

\* the user object of the login response and the body of the profile response
\* (lines 154-167, 186-199)
ProfileViewFields ==
    SignupViewFields \cup {"interests", "achievements", "academicProgress",
                           "universityApplications", "applicationProgress"}

View(user, fields) == [f \in fields |-> IF f = "id" THEN user._id ELSE user[f]]

signupView(user) == View(user, SignupViewFields)

\* a login response that spreads the loaded document, password included
loginViewWithPassword(user) == View(user, ProfileViewFields \cup {"password"})

loginView(user) == View(user, ProfileViewFields)

profileView(user) == View(user, ProfileViewFields)

\* an account with this address, letter case and padding ignored, is in the collection
EmailTaken(coll, email) ==
    \E i \in Ids(coll) : toLowerCase(trim(coll[i].email)) = toLowerCase(trim(email))

-----------------------------------------------------------------------------
(* Route handlers: the collection and the response each leaves *)

\* a signup handler that, finding the email registered, writes the new document over
\* the account found
signupUpsert(body, coll, secret, t, salt) ==
    LET R(status, message, error, token, user, calls) ==
            [store |-> calls]
            @@ Response("signup", status, message, error, token, user, body, t,
                        EmailTaken(coll, body.email), Public, TRUE)
        doc   == [_id |-> Len(coll) + 1] @@ NewUser(body)
        saved == preSave(doc, salt)
    IN  IF body.email = NoString \/ body.password = NoString
           \/ body.firstName = NoString \/ body.lastName = NoString
        THEN [users |-> coll,
              res |-> R(400, "Please enter all required fields", {}, NoToken, NoView,
                        <<>>)]
        ELSE IF findOne(coll, body.email) # 0
        THEN [users |-> [coll EXCEPT ![findOne(coll, body.email)] =
                            preSave([_id |-> findOne(coll, body.email)] @@ NewUser(body),
                                    salt)],
              res |-> R(400, "User with this email already exists", {}, NoToken, NoView,
                        <<"findOne", "save">>)]
        ELSE IF validate(doc) # {}
        THEN [users |-> coll,
              res |-> R(500, "Server error during signup", validate(doc), NoToken, NoView,
                        <<"findOne", "save">>)]
        ELSE IF duplicateKey(coll, saved)
        THEN [users |-> coll,
              res |-> R(400, "Email already registered", {}, NoToken, NoView,
                        <<"findOne", "save">>)]
        ELSE [users |-> Append(coll, saved),
              res |-> R(201, "User registered successfully", {},
                        jwtSign(saved._id, secret, t), signupView(saved),
                        <<"findOne", "save">>)]

\* the signup handler from `new User` on (lines 81-120), on the collection as it is
\* when save runs
signupSave(body, coll, secret, t, salt) ==
    LET R(status, message, error, token, user, calls) ==
            [store |-> calls]
            @@ Response("signup", status, message, error, token, user, body, t,
                        EmailTaken(coll, body.email), Public, TRUE)
        doc   == [_id |-> Len(coll) + 1] @@ NewUser(body)
        saved == preSave(doc, salt)
    IN  IF validate(doc) # {}
        THEN [users |-> coll,
              res |-> R(500, "Server error during signup", validate(doc), NoToken, NoView,
                        <<"findOne", "save">>)]
        ELSE IF duplicateKey(coll, saved)
        THEN [users |-> coll,
              res |-> R(400, "Email already registered", {}, NoToken, NoView,
                        <<"findOne", "save">>)]
        ELSE [users |-> Append(coll, saved),
              res |-> R(201, "User registered successfully", {},
                        jwtSign(saved._id, secret, t), signupView(saved),
                        <<"findOne", "save">>)]

\* POST /api/auth/signup (lines 66-121); store lists the calls made on the User model
signup(body, coll, secret, t, salt) ==
    LET R(status, message, error, token, user, calls) ==
            [store |-> calls]
            @@ Response("signup", status, message, error, token, user, body, t,
                        EmailTaken(coll, body.email), Public, TRUE)
    IN  IF body.email = NoString \/ body.password = NoString
           \/ body.firstName = NoString \/ body.lastName = NoString
        THEN [users |-> coll,
              res |-> R(400, "Please enter all required fields", {}, NoToken, NoView,
                        <<>>)]
        ELSE IF findOne(coll, body.email) # 0
        THEN [users |-> coll,
              res |-> R(400, "User with this email already exists", {}, NoToken, NoView,
                        <<"findOne">>)]
        ELSE signupSave(body, coll, secret, t, salt)

\* a login handler without the check of lines 129-132
loginUnchecked(body, coll, secret, t) ==
    LET R(status, message, token, user, calls) ==
            [store |-> calls]
            @@ Response("login", status, message, {}, token, user, body, t,
                        EmailTaken(coll, body.email), Public, TRUE)
        i == findOne(coll, body.email)
    IN  IF i = 0
        THEN R(400, "Invalid credentials", NoToken, NoView, <<"findOne">>)
        ELSE IF ~comparePassword(coll[i], body.password)
        THEN R(400, "Invalid credentials", NoToken, NoView, <<"findOne">>)
        ELSE R(200, "Logged in successfully", jwtSign(coll[i]._id, secret, t),
               loginView(coll[i]), <<"findOne">>)

\* POST /api/auth/login (lines 126-174); store lists the calls made on the User model
login(body, coll, secret, t) ==
    LET R(status, message, token, user, calls) ==
            [store |-> calls]
            @@ Response("login", status, message, {}, token, user, body, t,
                        EmailTaken(coll, body.email), Public, TRUE)
        i == findOne(coll, body.email)
    IN  IF body.email = NoString \/ body.password = NoString
        THEN R(400, "Please enter all fields", NoToken, NoView, <<>>)
        ELSE IF i = 0
        THEN R(400, "Invalid credentials", NoToken, NoView, <<"findOne">>)
        ELSE IF ~comparePassword(coll[i], body.password)
        THEN R(400, "Invalid credentials", NoToken, NoView, <<"findOne">>)
        ELSE R(200, "Logged in successfully", jwtSign(coll[i]._id, secret, t),
               loginView(coll[i]), <<"findOne">>)

\* a profile handler that looks the account up without the id (findOne({}))
profileHandlerAnyUser(coll, id) ==
    IF coll = <<>>
    THEN [status |-> 404, message |-> "User not found", user |-> NoView]
    ELSE [status |-> 200, message |-> "", user |-> profileView(coll[1])]

\* GET /api/user/profile (lines 179-204), after protect
profileHandler(coll, id) ==
    LET i == findById(coll, id)
    IN  IF i = 0
        THEN [status |-> 404, message |-> "User not found", user |-> NoView]
        ELSE [status |-> 200, message |-> "", user |-> profileView(coll[i])]

\* GET /api/protected (lines 207-212), after protect
protectedHandler(id) ==
    [status |-> 200, message |-> "Welcome to the protected route", user |-> [id |-> id]]

\* POST /api/auth/logout (lines 217-226), after protect
logoutHandler ==
    [status |-> 200, message |-> "Logged out successfully", user |-> NoView]

-----------------------------------------------------------------------------
(* The chat route and the inference service *)

\* a text is the sequence of its parts; String.prototype.includes at that grain
includes(text, part) == \E i \in DOMAIN text : text[i] = part

\* req.body.message
MsgUndefined == [type |-> "undefined", value |-> <<>>]
MsgStr(s)    == [type |-> "string", value |-> s]
MsgNum(n)    == [type |-> "number", value |-> n]
MsgHi        == MsgStr(<<"h", "i">>)
ChatMessages == {MsgUndefined, MsgStr(<<>>), MsgNum(0), MsgNum(5), MsgHi}

\* !message
falsy(message) ==
    \/ message.type = "undefined"
    \/ message.type = "string" /\ message.value = <<>>
    \/ message.type = "number" /\ message.value = 0

\* how the fetch of OLLAMA_API_URL ends: the promise rejects with an error message, or
\* resolves to an HTTP response with its ok flag, JSON body and status text
Rejects(m)        == [kind |-> "reject", ok |-> FALSE, message |-> m,
                      error |-> <<>>, statusText |-> <<>>, response |-> <<>>]
NotOk(error, st)  == [kind |-> "http", ok |-> FALSE, message |-> <<>>,
                      error |-> error, statusText |-> st, response |-> <<>>]
Ok(response)      == [kind |-> "http", ok |-> TRUE, message |-> <<>>,
                      error |-> <<>>, statusText |-> <<"OK">>, response |-> response]
NoFetch           == [kind |-> "none", ok |-> FALSE, message |-> <<>>,
                      error |-> <<>>, statusText |-> <<>>, response |-> <<>>]
\* "<s> Hi[/INST] </s>"
Completion        == <<"<", "s", ">", " ", "H", "i", "[", "/", "I", "N", "S", "T", "]", " ",
                       "<", "/", "s", ">">>
FetchOutcomes ==
    {Rejects(<<"fetch failed">>),
     Rejects(<<"connect ", "ECONNREFUSED", " 127.0.0.1:11434">>),
     NotOk(<<"Rate limit", " exceeded">>, <<"Too Many Requests">>),
     NotOk(<<>>, <<"Too Many Requests">>),
     NotOk(<<"Invalid API key">>, <<"Unauthorized">>),
     Ok(<<>>),
     Ok(Completion)}

M_s      == <<"<", "s", ">">>
M_sEnd   == <<"<", "/", "s", ">">>
M_INST   == <<"[", "I", "N", "S", "T", "]">>
M_INSTEnd == <<"[", "/", "I", "N", "S", "T", "]">>
Markup   == {M_s, M_sEnd, M_INST, M_INSTEnd}

\* String.replace(/.../g, ''): the matches found from left to right, the search going
\* on after each match, are removed; what is left is not searched again
RECURSIVE replace(_, _)
replace(s, patterns) ==
    IF s = <<>> THEN <<>>
    ELSE IF \E m \in patterns : startsWith(s, m)
    THEN LET m == CHOOSE x \in patterns : startsWith(s, x)
         IN  replace(SubSeq(s, Len(m) + 1, Len(s)), patterns)
    ELSE <<Head(s)>> \o replace(Tail(s), patterns)

\* lines 361-365
cleanResponse(response) ==
    trim(replace(replace(replace(response, {M_s, M_sEnd}), {M_INST}), {M_INSTEnd}))

Throw(message) == [threw |-> TRUE, message |-> message, value |-> <<>>]
Return(value)  == [threw |-> FALSE, message |-> <<>>, value |-> value]

\* getAIResponse (lines 316-382) when its fetch ends as f
getAIResponse(message, f) ==
    LET try ==
            IF falsy(message) \/ message.type # "string"
            THEN Throw(<<"Invalid message format">>)
            ELSE IF f.kind = "reject" THEN Throw(f.message)
            ELSE IF ~f.ok
            THEN Throw(<<"Ollama API error: ">>
                       \o (IF f.error # <<>> THEN f.error ELSE f.statusText))
            ELSE IF f.response = <<>>
            THEN Throw(<<"No response content received from Ollama">>)
            ELSE Return(cleanResponse(f.response))
    IN  IF ~try.threw THEN try
        ELSE IF includes(try.message, "ECONNREFUSED")
                \/ includes(try.message, "Failed to fetch")
        THEN Throw(<<"Unable to connect",
                     " to Ollama service. Please make sure Ollama is running locally.">>)
        ELSE Throw(<<"AI service error: ">> \o try.message)

\* a chat handler without the checks of lines 235-249
chatHandlerUnchecked(message, f) ==
    LET r == getAIResponse(message, f)
    IN  IF ~r.threw
        THEN [status |-> 200, message |-> <<>>, error |-> {},
              response |-> r.value, fetches |-> 1]
        ELSE [status |-> 500, message |-> r.message,
              error |-> {r.message}, response |-> <<>>, fetches |-> 1]

\* the handler of POST /api/ai/chat (lines 231-283), after protect; fetches counts the
\* calls of the inference service
chatHandler(message, f) ==
    IF falsy(message)
    THEN [status |-> 400, message |-> <<"Message is required">>,
          error |-> {<<"MISSING_MESSAGE">>}, response |-> <<>>, fetches |-> 0]
    ELSE IF message.type # "string"
    THEN [status |-> 400, message |-> <<"Message must be a string">>,
          error |-> {<<"INVALID_MESSAGE_FORMAT">>}, response |-> <<>>, fetches |-> 0]
    ELSE LET r == getAIResponse(message, f)
             statusCode ==
                 IF includes(r.message, "Invalid API key") THEN 503
                 ELSE IF includes(r.message, "Rate limit") THEN 429
                 ELSE IF includes(r.message, "Unable to connect") THEN 503
                 ELSE 500
         IN  IF ~r.threw
             THEN [status |-> 200, message |-> <<>>, error |-> {},
                   response |-> r.value, fetches |-> 1]
             ELSE [status |-> statusCode, message |-> r.message,
                   error |-> {r.message}, response |-> <<>>, fetches |-> 1]

\* a request to POST /api/ai/chat; body is the message the handler read, upstream how
\* the inference service answers when asked
chat(authorization, message, f, secret, t) ==
    LET p == protect(authorization, secret, t)
        h == chatHandler(message, f)
    IN  IF p.nexts > 0
        THEN [body |-> message, response |-> h.response, fetches |-> h.fetches,
              upstream |-> f, store |-> <<>>]
             @@ Response("chat", h.status, h.message, h.error, NoToken, NoView,
                         authorization, t, FALSE, p, TRUE)
        ELSE [body |-> MsgUndefined, response |-> <<>>, fetches |-> 0,
              upstream |-> f, store |-> <<>>]
             @@ Response("chat", p.status, p.message, {}, NoToken, NoView,
                         authorization, t, FALSE, p, FALSE)

\* a request to POST /api/user/chat, the path Dashboard.handleSendMessage posts to: no
\* route of the application has this path, so neither protect nor a handler runs and
\* Express ends the request with its default 404 (an HTML page 'Cannot POST ...')
userChat(authorization, message, f, secret, t) ==
    [body |-> message, response |-> <<>>, fetches |-> 0, upstream |-> f, store |-> <<>>]
    @@ Response("user/chat", 404, "", {}, NoToken, NoView,
                authorization, t, FALSE, Public, FALSE)

\* the routes registered directly as app.<method>(path, protect, handler)
AccountRoutes == {"profile", "protected", "logout"}

ProtectedRoutes == AccountRoutes \cup {"chat"}

\* routes whose middleware keeps a list of logged-out tokens and refuses them
guardedRevoking(route, authorization, coll, secret, t) ==
    LET revoked == /\ loggedOut /\ Len(authorization) >= 2
                   /\ authorization[2] = issued.token
        p == IF revoked
             THEN [nexts |-> 0, sends |-> 1, status |-> 401,
                   message |-> "Token is not valid", user |-> [id |-> 0]]
             ELSE protect(authorization, secret, t)
        h == IF route = "profile" THEN profileHandler(coll, p.user.id)
             ELSE IF route = "protected" THEN protectedHandler(p.user.id)
             ELSE logoutHandler
    IN  IF p.nexts > 0
        THEN [store |-> IF route = "profile" THEN <<"findById">> ELSE <<>>]
             @@ Response(route, h.status, h.message, {}, NoToken, h.user,
                         authorization, t, FALSE, p, TRUE)
        ELSE [store |-> <<>>]
             @@ Response(route, p.status, p.message, {}, NoToken, NoView,
                         authorization, t, FALSE, p, FALSE)

\* a request to a route registered as app.<method>(path, protect, handler)
guarded(route, authorization, coll, secret, t) ==
    LET p == protect(authorization, secret, t)
        h == IF route = "profile" THEN profileHandler(coll, p.user.id)
             ELSE IF route = "protected" THEN protectedHandler(p.user.id)
             ELSE logoutHandler
    IN  IF p.nexts > 0
        THEN [store |-> IF route = "profile" THEN <<"findById">> ELSE <<>>]
             @@ Response(route, h.status, h.message, {}, NoToken, h.user,
                         authorization, t, FALSE, p, TRUE)
        ELSE [store |-> <<>>]
             @@ Response(route, p.status, p.message, {}, NoToken, NoView,
                         authorization, t, FALSE, p, FALSE)

-----------------------------------------------------------------------------
(* What a client may send as its Authorization header *)

\* the tokens signup or login may have issued up to clock reading t, under any key
Issued(coll, t) ==
    {jwtSign(id, k, T) : id \in 1..MaxUsers, k \in Keys, T \in {i \in Instants : i <= t}}

\* a token with one part altered after signing
TamperId(token)  == [token EXCEPT !.payload.id = (@ % MaxUsers) + 1]
TamperExp(token) == [token EXCEPT !.payload.exp = @ + expiresIn]
TamperSig(token) == [token EXCEPT !.sig.key = "corrupt"]

Tampered(coll, secret, t) ==
    UNION {{TamperId(k), TamperExp(k), TamperSig(k)} :
             k \in {i \in Issued(coll, t) : i.sig.key = secret}}

Headers(coll, secret, t) ==
    {<<>>, <<W_Bearer>>}
    \cup {<<W_Bearer, k>> : k \in Issued(coll, t) \cup Tampered(coll, secret, t) \cup {Garbage}}
    \cup {<<w, jwtSign(1, secret, t)>> : w \in {W_Basic, W_bearer, W_BearerX}}
    \cup {<<W_Bearer, EmptyToken, jwtSign(1, secret, t)>>}

-----------------------------------------------------------------------------
(* The service as a state machine *)

NothingIssued == [token |-> NoToken, at |-> 0]

\* the history of issued tokens after a response
Issue(r, t) == IF r.token # NoToken THEN [token |-> r.token, at |-> t] ELSE issued

\* no browser is open
ClientOff == [view |-> "none"]

\* no completion is being cleaned
NoCleanup == [text |-> <<>>, out |-> <<>>, threw |-> FALSE, done |-> FALSE]

\* the process has left at line 24, process.exit(1): it serves nothing
Exited ==
    Response("exit", 0, "", {}, NoToken, NoView, <<>>, 0, FALSE, Public, FALSE)

\* lines 9-32: the environment is read; without MONGO_URI the process exits
Startup(e) == IF e.MONGO_URI = EnvUnset THEN Exited ELSE NoResponse

Init ==
    /\ env \in Envs
    /\ JWT_SECRET = loadSecret(env.JWT_SECRET)
    /\ users = <<>>
    /\ plain = <<>>
    /\ now = 0
    /\ res = Startup(env)
    /\ issued = NothingIssued
    /\ loggedOut = FALSE
    /\ inflight = <<>>
    /\ client = ClientOff
    /\ cleanup = NoCleanup

\* a signup request is served
Signup ==
    /\ res = NoResponse
    /\ \E body \in SignupBodies :
        LET r == signup(body, users, JWT_SECRET, now, genSalt(users))
        IN  /\ Len(r.users) <= MaxUsers
            /\ users' = r.users
            /\ plain' = IF r.users # users THEN Append(plain, body.password) ELSE plain
            /\ res' = r.res
            /\ issued' = Issue(r.res, now)
            /\ loggedOut' = (loggedOut /\ r.res.token = NoToken)
    /\ UNCHANGED <<env, JWT_SECRET, now, aux>>

\* a login request is served
Login ==
    /\ res = NoResponse
    /\ \E body \in LoginBodies :
        /\ res' = login(body, users, JWT_SECRET, now)
        /\ issued' = Issue(res', now)
        /\ loggedOut' = (loggedOut /\ res'.token = NoToken)
    /\ UNCHANGED <<env, JWT_SECRET, users, plain, now, aux>>

\* a request to a route behind protect is served
Guarded ==
    /\ res = NoResponse
    /\ \E route \in AccountRoutes, authorization \in Headers(users, JWT_SECRET, now) :
        res' = guarded(route, authorization, users, JWT_SECRET, now)
    /\ UNCHANGED <<env, JWT_SECRET, users, plain, now, issued, loggedOut, aux>>

\* a chat request is served; the body is read only by the handler, and the inference
\* service is asked only where the handler calls it
Chat ==
    /\ res = NoResponse
    /\ \E authorization \in Headers(users, JWT_SECRET, now) :
        IF protect(authorization, JWT_SECRET, now).nexts = 0
        THEN res' = chat(authorization, MsgUndefined, NoFetch, JWT_SECRET, now)
        ELSE \E message \in ChatMessages :
                IF chatHandler(message, NoFetch).fetches = 0
                THEN res' = chat(authorization, message, NoFetch, JWT_SECRET, now)
                ELSE \E f \in FetchOutcomes :
                        res' = chat(authorization, message, f, JWT_SECRET, now)
    /\ UNCHANGED <<env, JWT_SECRET, users, plain, now, issued, loggedOut, aux>>

\* the dashboard sends a chat message: the token it holds, a message that is not blank
\* (Dashboard.jsx lines 56-71), with the inference service up
DashboardChat ==
    /\ res = NoResponse
    /\ issued.token # NoToken
    /\ res' = userChat(<<W_Bearer, issued.token>>, MsgHi, Ok(Completion), JWT_SECRET, now)
    /\ UNCHANGED <<env, JWT_SECRET, users, plain, now, issued, loggedOut, aux>>

\* the client has read the response; the service is ready for the next request
Deliver ==
    /\ res # NoResponse
    /\ res.status # 0
    /\ res' = NoResponse
    /\ UNCHANGED <<env, JWT_SECRET, users, plain, now, issued, loggedOut, aux>>

\* time passes between requests
Advance ==
    /\ res = NoResponse
    /\ \E t \in Instants : t > now /\ now' = t
    /\ UNCHANGED <<env, JWT_SECRET, users, plain, res, issued, loggedOut, aux>>

Next == Signup \/ Login \/ Guarded \/ Chat \/ DashboardChat \/ Deliver \/ Advance

Spec == Init /\ [][Next]_vars

\* the process is stopped and started again, with JWT_SECRET set anew in its
\* environment (the secret is rotated); the collection lives in the database
Restart ==
    /\ res = NoResponse
    /\ \E e \in Envs :
        /\ e.MONGO_URI # EnvUnset
        /\ loadSecret(e.JWT_SECRET) # JWT_SECRET
        /\ env' = e
        /\ JWT_SECRET' = loadSecret(e.JWT_SECRET)
    /\ UNCHANGED <<users, plain, now, res, issued, loggedOut, aux>>

NextRestart == Next \/ Restart

SpecRestart == Init /\ [][NextRestart]_vars

-----------------------------------------------------------------------------
(* Properties *)

\* the request of res carried "Bearer <token>" with a token that is a JWT signed under
\* the signing secret and not yet expired when the request was served
CarriedValidToken ==
    /\ Len(res.req) >= 2
    /\ startsWith(res.req[1], W_Bearer)
    /\ res.req[2].kind = "jwt"
    /\ res.req[2].sig = HS256(res.req[2].payload, JWT_SECRET)
    /\ clockTimestamp(res.at) < res.req[2].payload.exp

\* C1: on every protected route the handler runs only for a request that carried a
\* bearer token that verified; protect either calls next once, with the token's account
\* id attached, and sends nothing, or sends one 401 and the handler does not run.
C1_ProtectGate ==
    res.route \in ProtectedRoutes =>
        IF CarriedValidToken
        THEN /\ res.nexts = 1 /\ res.sends = 0 /\ res.handler
             /\ res.reqUser = res.req[2].payload.id
        ELSE /\ res.nexts = 0 /\ res.sends = 1 /\ ~res.handler
             /\ res.status = 401

\* a request with a token that does not verify was answered 401 by protect
C1_Witness ==
    /\ res.route = "profile"
    /\ Len(res.req) >= 2 /\ res.req[2].kind = "jwt"
    /\ ~CarriedValidToken
    /\ res.status = 401 /\ ~res.handler

\* what the caller sees of a response
Observable(r) ==
    [status |-> r.status, message |-> r.message, error |-> r.error,
     token |-> r.token, user |-> r.user]

\* no two accounts have the same email, letter case ignored
UniqueEmails ==
    \A i, j \in Ids(users) :
        i # j => toLowerCase(users[i].email) # toLowerCase(users[j].email)

\* the two responses the signup handler has for an email that is taken
DuplicateEmailMessages ==
    {"User with this email already exists", "Email already registered"}

RequiredPresent(body) == \A f \in DOMAIN body \ {"age"} : body[f] # NoString

\* C2 as stated: at most one account per email, letter case ignored, and every signup
\* with the email of an existing account is answered with the duplicate-email 400.
C2_Original ==
    /\ UniqueEmails
    /\ (res.route = "signup" /\ res.dup) =>
           (res.status = 400 /\ res.message \in DuplicateEmailMessages)

\* C2, amended: at most one account per email, letter case ignored; a signup with the
\* email of an existing account is answered 400 without a token, and with the
\* duplicate-email message when its required fields are all present.
C2_UniqueEmail ==
    /\ UniqueEmails
    /\ (res.route = "signup" /\ res.dup) =>
           /\ res.status = 400 /\ res.token = NoToken
           /\ RequiredPresent(res.req) => res.message \in DuplicateEmailMessages

\* a complete signup with the address of an existing account in another letter case
\* was refused as a duplicate
C2_Witness ==
    /\ res.route = "signup" /\ res.dup /\ res.req.email = Email_A
    /\ res.status = 400 /\ res.message \in DuplicateEmailMessages
    /\ Len(users) = 1

\* the account a login names, 0 if none: the one whose address is the request's,
\* letter case and padding ignored
Named(email) ==
    IF EmailTaken(users, email)
    THEN CHOOSE i \in Ids(users) :
             toLowerCase(trim(users[i].email)) = toLowerCase(trim(email))
    ELSE 0

InvalidCredentials ==
    [status |-> 400, message |-> "Invalid credentials", error |-> {},
     token |-> NoToken, user |-> NoView]

\* C3: a login with an email that has no account and a login with an existing email
\* and a password other than the account's get the same response, 400 'Invalid
\* credentials'.
C3_SameInvalidCredentials ==
    (res.route = "login" /\ res.req.email # NoString /\ res.req.password # NoString) =>
        ((Named(res.req.email) = 0 \/ res.req.password # plain[Named(res.req.email)])
            => Observable(res) = InvalidCredentials)

\* C4: no response of signup, login or profile has a password field in its user view
\* or in the payload of its token
C4_NoPasswordInResponse ==
    /\ "password" \notin DOMAIN res.user
    /\ res.token.kind = "jwt" => "password" \notin DOMAIN res.token.payload

\* a login succeeded and returned the user view of an account loaded with its password
C4_Witness ==
    /\ res.route = "login" /\ res.status = 200
    /\ res.user.id \in Ids(users) /\ users[res.user.id].password.hashed

\* the instant at which the token the request of res carried was issued, when it is
\* the token that signup or login returned last
IssueInstants ==
    IF res.route \in ProtectedRoutes /\ Len(res.req) = 2 /\ res.req[1] = W_Bearer
       /\ res.req[2] = issued.token
    THEN {issued.at}
    ELSE {}

Accepted == res.nexts = 1 /\ res.handler
Rejected == res.nexts = 0 /\ res.status = 401 /\ ~res.handler

\* C5 as stated: a token issued at T is accepted at every time before T + 1 hour and
\* rejected at every time after it.
C5_Original ==
    \A T \in IssueInstants :
        /\ res.at < T + Hour => Accepted
        /\ res.at > T + Hour => Rejected

\* C5, amended: a token issued at T is accepted at every time up to T + 1 hour - 1
\* second and rejected with 401 at every time from T + 1 hour on; once rejected it is
\* rejected at every later time.
C5_Expiry ==
    \A T \in IssueInstants :
        /\ res.at <= T + Hour - 1000 => Accepted
        /\ res.at >= T + Hour => Rejected
        /\ Rejected =>
               \A t \in Instants :
                   t >= res.at => protect(res.req, JWT_SECRET, t).nexts = 0

\* a token was presented an hour or more after its issue and rejected
C5_Witness ==
    /\ \E T \in IssueInstants : res.at >= T + Hour
    /\ Rejected

\* C6: protect lets a request through only if the token's signature is the one of its
\* payload under the current signing secret; a token with any other signature is
\* answered 401 and the handler does not run.
C6_SignatureGate ==
    (res.route \in ProtectedRoutes /\ Len(res.req) >= 2 /\ res.req[2].kind = "jwt") =>
        IF res.req[2].sig = HS256(res.req[2].payload, JWT_SECRET)
        THEN TRUE
        ELSE Rejected

\* a token issued under the current secret and then altered was rejected
C6_Witness ==
    /\ res.route \in ProtectedRoutes /\ Len(res.req) = 2
    /\ \E id \in 1..MaxUsers, T \in Instants :
           res.req[2] = TamperExp(jwtSign(id, JWT_SECRET, T))
    /\ Rejected

\* the signup request of res had every required field, an email of email shape that
\* no account had, and a password of the minimum length or longer
SignupAsClaimed ==
    /\ res.route = "signup"
    /\ RequiredPresent(res.req)
    /\ emailMatch(res.req.email) /\ ~res.dup
    /\ Len(res.req.password) >= MinPasswordLength

\* ... and names that are not blank and, if an age, a number from 13 to 100
SignupWellFormed ==
    /\ SignupAsClaimed
    /\ trim(res.req.firstName) # NoString /\ trim(res.req.lastName) # NoString
    /\ \/ res.req.age.t = "undefined"
       \/ res.req.age.t = "number" /\ res.req.age.v >= MinAge /\ res.req.age.v <= MaxAge

\* the response of res is a 201 with a user view and a token; the account of that id
\* is the newest of the collection and has the email requested; protect, given the
\* token at any time before its expiry, calls next with that id attached
Registered ==
    /\ res.status = 201 /\ res.token.kind = "jwt"
    /\ res.user.id = Len(users)
    /\ users[res.user.id]._id = res.user.id
    /\ users[res.user.id].email = toLowerCase(trim(res.req.email))
    /\ \A t \in Instants :
           (t >= res.at /\ clockTimestamp(t) < res.token.payload.exp) =>
               LET p == protect(<<W_Bearer, res.token>>, JWT_SECRET, t)
               IN  p.nexts = 1 /\ p.sends = 0 /\ p.user.id = res.user.id

\* C7 as stated: a signup with all required fields, a well-formed unused email and a
\* valid password returns 201 with a token that resolves to the new account's id.
C7_Original == SignupAsClaimed => Registered

\* C7, amended: a signup with all required fields, none blank, a well-formed unused
\* email, a valid password and, if an age is given, an age from 13 to 100 returns 201
\* with a token and a user view, creates exactly one account, and the token resolves,
\* before expiry, to the id of that account.
C7_SignupIssuesToken ==
    /\ [](SignupWellFormed => Registered)
    /\ [][(res'.route = "signup" /\ res'.status = 201 /\ res' # res)
              => Len(users') = Len(users) + 1]_vars

\* a signup that gave an age was registered
C7_Witness ==
    /\ SignupWellFormed /\ Registered
    /\ res.req.age.t = "number"

\* C8 as stated: after a signup with (email, p), a login with (email, p) returns 200
\* with a token for that account, and a login with (email, p'), p' other than p,
\* returns 400 'Invalid credentials'.
C8_Original ==
    (res.route = "login" /\ res.req.password # NoString /\ Named(res.req.email) # 0) =>
        IF res.req.password = plain[Named(res.req.email)]
        THEN /\ res.status = 200
             /\ res.token.kind = "jwt"
             /\ res.token.payload.id = Named(res.req.email)
        ELSE Observable(res) = InvalidCredentials

\* C9: the password stored with every account is the bcrypt hash of the password the
\* signup submitted, never the submitted password itself
C9_StoredPasswordHashed ==
    /\ Len(plain) = Len(users)
    /\ \A i \in Ids(users) :
           /\ users[i].password # Plain(plain[i])
           /\ users[i].password = bcryptHash(plain[i], users[i].password.salt)

\* a signup has saved an account
C9_Witness ==
    /\ res.route = "signup" /\ res.status = 201
    /\ Len(users) = MaxUsers

\* C10: a profile request with a valid token for account id i returns 200 with the
\* fields of account i when the collection has it, and 404 when it has not
C10_OwnProfileOnly ==
    (res.route = "profile" /\ CarriedValidToken) =>
        LET i == res.req[2].payload.id
        IN  IF i \in Ids(users)
            THEN /\ res.status = 200
                 /\ res.user.id = i
                 /\ \A f \in ProfileViewFields \ {"id"} : res.user[f] = users[i][f]
            ELSE res.status = 404

\* with two accounts stored, the token of the second returned the second's profile
C10_Witness ==
    /\ res.route = "profile" /\ CarriedValidToken
    /\ Len(users) = 2 /\ res.req[2].payload.id = 2
    /\ res.status = 200 /\ res.user.email = users[2].email
    /\ users[1].email # users[2].email

\* the client that holds the latest token logs out with it
Logout ==
    /\ res = NoResponse
    /\ issued.token # NoToken
    /\ res' = guarded("logout", <<W_Bearer, issued.token>>, users, JWT_SECRET, now)
    /\ loggedOut' = (loggedOut \/ res'.status = 200)
    /\ UNCHANGED <<env, JWT_SECRET, users, plain, now, issued, aux>>

NextLogout == Next \/ Logout

SpecLogout == Init /\ [][NextLogout]_vars

-----------------------------------------------------------------------------
(* The chat route while its call of the inference service is outstanding *)

\* the fetch of lines 331-347 has been sent and has not settled
Pending == [kind |-> "pending", ok |-> FALSE, message |-> <<>>,
            error |-> <<>>, statusText |-> <<>>, response |-> <<>>]

\* the request of res is in getAIResponse, at `await fetch(...)`; nothing is sent yet
Waiting == res.route = "chat" /\ res.handler /\ res.upstream = Pending

\* a chat request passes protect and the handler's checks and awaits the fetch
ChatAwait ==
    /\ res = NoResponse
    /\ \E authorization \in Headers(users, JWT_SECRET, now) :
        LET p == protect(authorization, JWT_SECRET, now)
        IN  /\ p.nexts = 1
            /\ res' = [body |-> MsgHi, response |-> <<>>, fetches |-> 1,
                       upstream |-> Pending, store |-> <<>>]
                      @@ Response("chat", 0, <<>>, {}, NoToken, NoView,
                                  authorization, now, FALSE, p, TRUE)
    /\ UNCHANGED <<env, JWT_SECRET, users, plain, now, issued, loggedOut, aux>>

\* the inference service answers, or the connection fails: the fetch settles and the
\* handler sends its response
FetchSettles ==
    /\ Waiting
    /\ \E f \in FetchOutcomes : res' = chat(res.req, res.body, f, JWT_SECRET, res.at)
    /\ UNCHANGED <<env, JWT_SECRET, users, plain, now, issued, loggedOut, aux>>

NextAwait == Next \/ ChatAwait \/ FetchSettles

\* a response that was sent reaches the client; nothing obliges the inference service
\* to answer
SpecAwait == Init /\ [][NextAwait]_vars /\ WF_vars(Deliver)

-----------------------------------------------------------------------------
(* Signup requests served concurrently: the handler awaits findOne (line 76) and save
   (line 93), and other requests run in between *)

\* the sequence s without its i-th element
Without(s, i) == SubSeq(s, 1, i - 1) \o SubSeq(s, i + 1, Len(s))

\* a signup request passes the check of line 70 and finds no account (lines 76-79)
SignupFind ==
    /\ res = NoResponse
    /\ Len(inflight) < MaxInflight
    /\ \E body \in SignupBodies :
        /\ body.email # NoString /\ body.password # NoString
        /\ body.firstName # NoString /\ body.lastName # NoString
        /\ findOne(users, body.email) = 0
        /\ inflight' = Append(inflight, body)
    /\ UNCHANGED <<env, JWT_SECRET, users, now, res, plain, issued, loggedOut>>
    /\ UNCHANGED <<client, cleanup>>

\* one of the requests that found no account goes on to save and responds
\* (lines 81-120)
SignupSave ==
    /\ res = NoResponse
    /\ \E i \in DOMAIN inflight :
        LET r == signupSave(inflight[i], users, JWT_SECRET, now, genSalt(users))
        IN  /\ Len(r.users) <= MaxUsers
            /\ users' = r.users
            /\ plain' = IF r.users # users THEN Append(plain, inflight[i].password)
                        ELSE plain
            /\ res' = [raced |-> Len(inflight)] @@ r.res
            /\ issued' = Issue(r.res, now)
            /\ loggedOut' = (loggedOut /\ r.res.token = NoToken)
            /\ inflight' = Without(inflight, i)
    /\ UNCHANGED <<env, JWT_SECRET, now, client, cleanup>>

NextRace == Signup \/ SignupFind \/ SignupSave \/ Deliver

SpecRace == Init /\ [][NextRace]_vars

-----------------------------------------------------------------------------

\* the response of protect to a request without a token
Unauthenticated == protect(<<>>, JWT_SECRET, now)

\* C11: whatever the failure kind of the token (Missing, Malformed, Expired,
\* SignatureInvalid), protect answers with the same status 401 and the same body.
C11_SameUnauthenticated ==
    (res.route \in ProtectedRoutes /\ ~res.handler) =>
        /\ res.status = Unauthenticated.status
        /\ res.message = Unauthenticated.message

\* C12: a signup without email, password, firstName or lastName and a login without
\* email or password are answered 400 without a token and without a call on the User
\* model, and (second conjunct) change no account.
C12_MissingFields ==
    /\ [](/\ (res.route = "signup" /\ ~RequiredPresent(res.req)) =>
               (res.status = 400 /\ res.token = NoToken /\ res.store = <<>>)
          /\ (res.route = "login"
                /\ (res.req.email = NoString \/ res.req.password = NoString)) =>
               (res.status = 400 /\ res.token = NoToken /\ res.store = <<>>))
    /\ [][(/\ res' # res
           /\ \/ res'.route = "signup" /\ ~RequiredPresent(res'.req)
              \/ res'.route = "login"
                 /\ (res'.req.email = NoString \/ res'.req.password = NoString))
              => users' = users]_vars

\* with an account stored, a login without a password was answered 400
C12_Witness ==
    /\ res.route = "login" /\ res.req.password = NoString /\ res.req.email # NoString
    /\ Len(users) >= 1 /\ EmailTaken(users, res.req.email)
    /\ res.status = 400 /\ res.store = <<>>

\* the input of a signup is malformed: an email not of email shape, a password shorter
\* than 6 characters or an age outside 13..100
Malformed(body) ==
    \/ ~emailMatch(body.email)
    \/ Len(body.password) < MinPasswordLength
    \/ body.age.t = "number" /\ (body.age.v < MinAge \/ body.age.v > MaxAge)

\* C13: a signup with all required fields present and malformed input is answered 400,
\* as a client error, without a token.
C13_Original ==
    (res.route = "signup" /\ RequiredPresent(res.req) /\ Malformed(res.req)) =>
        (res.status = 400 /\ res.token = NoToken)

\* the request of res carried the latest issued token, after a logout with it
AfterLogout ==
    /\ res.route \in ProtectedRoutes
    /\ loggedOut /\ res.req = <<W_Bearer, issued.token>>

C15_AccountsFrame ==
    /\ [][users' # users =>
              /\ res'.route = "signup" /\ res'.status = 201
              /\ Len(users') = Len(users) + 1
              /\ SubSeq(users', 1, Len(users)) = users]_vars
    /\ [][(res'.route = "signup" /\ res'.status = 201 /\ res' # res) =>
              users' = Append(users, users'[Len(users')])]_vars

\* a login was answered 200 with both accounts stored
C15_Witness ==
    /\ res.route = "login" /\ res.status = 200
    /\ Len(users) = MaxUsers

\* C16: a chat request that passed protect and whose message is absent, empty or not
\* a string is answered 400 and the inference service is not called for it.
C16_BadMessage ==
    (res.route = "chat" /\ res.handler
       /\ (falsy(res.body) \/ res.body.type # "string")) =>
        (res.status = 400 /\ res.fetches = 0)

\* a message that is a number other than 0 was refused with 400
C16_Witness ==
    /\ res.route = "chat" /\ res.handler
    /\ res.body = MsgNum(5)
    /\ res.status = 400 /\ res.fetches = 0

\* C17: a chat request to /user/chat or to /ai/chat with a valid bearer token and a
\* non-empty string message is handled by the chat handler and answered 200 with a
\* response, when the inference service returns a completion.
C17_Original ==
    (/\ res.route \in {"chat", "user/chat"}
     /\ CarriedValidToken
     /\ res.body.type = "string" /\ res.body.value # <<>>
     /\ res.upstream.kind = "http" /\ res.upstream.ok /\ res.upstream.response # <<>>) =>
        (res.handler /\ res.status = 200 /\ res.fetches = 1)

\* the inference service was asked for the request of res and the call failed
UpstreamFailed ==
    /\ res.route = "chat" /\ res.fetches = 1
    /\ ~(res.upstream.ok /\ res.upstream.response # <<>>)

\* C18: an inference service that cannot be reached is answered 503, one that limits
\* the rate 429, any other failure of the call 500, and none of them 200.
C18_Original ==
    UpstreamFailed =>
        res.status = IF res.upstream.kind = "reject" THEN 503
                     ELSE IF res.upstream.statusText = <<"Too Many Requests">> THEN 429
                     ELSE 500

\* C19: every chat request eventually receives a response, even if the inference
\* service never answers.
C19_Original == Waiting ~> (res.route = "chat" /\ res.status # 0)

\* the machine-readable kinds the server sends (lines 239 and 247), as texts of one part
Kinds == {<<"MISSING_MESSAGE">>, <<"INVALID_MESSAGE_FORMAT">>}

\* the `error` of the response is one of the stable kinds; outside the chat route the
\* only `error` the server sends is the text of the exception caught (lines 119, 172, 202)
StableKind(r) == r.route = "chat" /\ r.error # {} /\ r.error \subseteq Kinds

\* C20: every failure response of signup, login, profile, logout and chat carries a
\* stable machine-readable kind and a message, and no text of an underlying exception.
C20_Original ==
    (res.route \in {"signup", "login", "profile", "logout", "chat"} /\ res.status >= 400) =>
        (StableKind(res) /\ res.message # <<>>)

\* C21: a process whose environment lacks the signing secret or the connection string
\* has exited at startup, and every token issued or accepted is signed under the
\* secret the environment supplied.
C21_Original ==
    /\ (env.JWT_SECRET = EnvUnset \/ env.MONGO_URI = EnvUnset) => res = Exited
    /\ res.token.kind = "jwt" => res.token.sig.key = env.JWT_SECRET
    /\ (res.route \in ProtectedRoutes /\ res.nexts = 1) =>
           res.req[2].sig.key = env.JWT_SECRET

\* the request of res went from findOne to save while other requests did, its input
\* passes the schema's validators, and at its save an account had its email
LostRace ==
    /\ res.route = "signup" /\ "raced" \in DOMAIN res
    /\ validate(NewUser(res.req)) = {}
    /\ res.dup

-----------------------------------------------------------------------------
(* The browser client: App.jsx, Login.jsx, Signup.jsx, Dashboard.jsx *)

\* the variables of the server
serverVars == <<env, JWT_SECRET, users, now, res, plain, issued, loggedOut, inflight>>

\* localStorage.getItem of a key that is not set
Absent == "null"

\* what localStorage may hold under userData: nothing, the JSON of a user object, the
\* JSON text null, or a text that is not JSON
StoredUserData == {Absent, "json", "nulljson", "bad"}

Storages ==
    [authToken : {Absent, "tok"}, userData : StoredUserData,
     token : {Absent, "old"}, userEmail : {Absent, "old"}]

\* JSON.parse succeeds on the text
parses(userData) == userData \in {"json", "nulljson"}

\* JSON.parse of a text that parses: a user object, or null
JSONparse(userData) == IF userData = "json" THEN "u" ELSE "null"

Paths == {"/", "/login", "/signup", "/dashboard", "/about"}

\* a <Routes> that renders the dashboard without ProtectedRoute
ElementUnprotected(path, isLoggedIn) ==
    CASE path = "/"          -> "LandingPage"
      [] path = "/login"     -> IF isLoggedIn THEN "NavigateDashboard" ELSE "Login"
      [] path = "/signup"    -> IF isLoggedIn THEN "NavigateDashboard" ELSE "Signup"
      [] path = "/dashboard" -> "Dashboard"
      [] OTHER               -> "Static"

\* the element <Routes> renders for a path (App.jsx lines 161-196)
Element(path, isLoggedIn) ==
    CASE path = "/"          -> "LandingPage"
      [] path = "/login"     -> IF isLoggedIn THEN "NavigateDashboard" ELSE "Login"
      [] path = "/signup"    -> IF isLoggedIn THEN "NavigateDashboard" ELSE "Signup"
      [] path = "/dashboard" -> IF ~isLoggedIn THEN "NavigateLogin" ELSE "Dashboard"
      [] OTHER               -> "Static"

\* React renders the App again after a change of its state or of the location; a
\* Dashboard that was not mounted before is mounted and its effect is due
Render(c) ==
    LET e == Element(c.path, c.isLoggedIn)
    IN  [c EXCEPT !.view = e,
                  !.dash = IF e # "Dashboard" THEN "off"
                           ELSE IF c.view = "Dashboard" THEN c.dash ELSE "mounting"]

NoRequest == [to |-> "none"]
NoForm == [password |-> <<>>, confirmPassword |-> <<>>, age |-> <<>>]

\* the page is loaded at a path: the App's state is its initial one (lines 9-10), its
\* mount effect is due; localStorage and the history (expelled, loggedOff) are kept
PageLoad(path, storage, expelled, loggedOff) ==
    Render([path |-> path, view |-> "none", dash |-> "off", mounted |-> FALSE,
            isLoggedIn |-> FALSE, user |-> "null", storage |-> storage,
            timer |-> FALSE, event |-> "load", request |-> NoRequest,
            form |-> NoForm, message |-> "", bubble |-> FALSE, isLoading |-> FALSE,
            expelled |-> expelled, loggedOff |-> loggedOff])

\* an effect is due before the user can act: the App's mount effect, a <Navigate>, or
\* the Dashboard's mount effect
Urgent(c) ==
    ~c.mounted \/ c.view \in {"NavigateLogin", "NavigateDashboard"} \/ c.dash = "mounting"

\* the user can act on what is shown
Idle == client # ClientOff /\ ~Urgent(client)

\* the value of a decimal digit, -1 for any other character
DigitVal(c) ==
    CASE c = "0" -> 0 [] c = "1" -> 1 [] c = "2" -> 2 [] c = "3" -> 3 [] c = "4" -> 4
      [] c = "5" -> 5 [] c = "6" -> 6 [] c = "7" -> 7 [] c = "8" -> 8 [] c = "9" -> 9
      [] OTHER -> -1

\* the number the leading digits of s stand for, after the digits read so far gave acc
RECURSIVE digits(_, _)
digits(s, acc) ==
    IF s = <<>> \/ DigitVal(Head(s)) < 0 THEN acc
    ELSE digits(Tail(s), 10 * acc + DigitVal(Head(s)))

\* parseInt of a string: leading blanks skipped, then a sign, then digits; NaN without
\* a digit there
parseInt(str) ==
    LET s    == trimStart(str)
        neg  == s # <<>> /\ Head(s) = "-"
        body == IF s # <<>> /\ Head(s) \in {"-", "+"} THEN Tail(s) ELSE s
    IN  IF body = <<>> \/ DigitVal(Head(body)) < 0 THEN AgeNaN
        ELSE AgeNum(IF neg THEN 0 - digits(body, 0) ELSE digits(body, 0))

\* the value of the age field of the signup form: an input of type number holds the
\* empty string or a number's text
AgeTexts ==
    {<<>>, <<"0">>, <<"1", "2">>, <<"1", "3">>, <<"1", "0", "0">>, <<"1", "0", "1">>,
     <<"-", "5">>, <<"1", "2", ".", "5">>, <<"1", "0", "0", ".", "5">>}

\* what follows the leading digits of s
RECURSIVE afterDigits(_)
afterDigits(s) ==
    IF s = <<>> \/ DigitVal(Head(s)) < 0 THEN s ELSE afterDigits(Tail(s))

\* the number an age text stands for, in tenths
valueAsTenths(str) ==
    LET neg  == str # <<>> /\ Head(str) = "-"
        body == IF neg THEN Tail(str) ELSE str
        frac == afterDigits(body)
        v    == 10 * digits(body, 0)
                + (IF Len(frac) >= 2 /\ frac[1] = "." THEN DigitVal(frac[2]) ELSE 0)
    IN  IF neg THEN 0 - v ELSE v

\* the browser's validation of the age input before it fires the form's submit event
\* (Signup.jsx lines 214-224: type number, min 13, max 100, the default step 1)
checkValidity(form) ==
    \/ form.age = <<>>
    \/ /\ valueAsTenths(form.age) >= 10 * InputMinAge
       /\ valueAsTenths(form.age) <= 10 * InputMaxAge
       /\ (valueAsTenths(form.age) - 10 * InputMinAge) % 10 = 0

Forms ==
    [password : {Pw_secret}, confirmPassword : {Pw_secret, Pw_secreT}, age : AgeTexts]

\* a handleSubmit that posts whatever the form holds
handleSubmitUnchecked(c, form) ==
    [c EXCEPT !.form = form, !.event = "signupSubmit", !.bubble = FALSE,
              !.message = "", !.isLoading = TRUE,
              !.request = [to |-> "signup",
                           body |-> [password |-> form.password,
                                     age |-> IF form.age # <<>> THEN parseInt(form.age)
                                             ELSE AgeUndef]]]

\* Signup.handleSubmit up to the fetch (Signup.jsx lines 29-64), on the form's state
handleSubmit(c, form) ==
    LET age == parseInt(form.age)
        c0  == [c EXCEPT !.form = form, !.event = "signupSubmit", !.request = NoRequest,
                         !.bubble = FALSE]
    IN  IF form.password # form.confirmPassword
        THEN [c0 EXCEPT !.message = "Passwords do not match."]
        ELSE IF form.age # <<>> /\ age.t = "number"
                /\ (age.v < FormMinAge \/ age.v > FormMaxAge)
        THEN [c0 EXCEPT !.message = "Please enter a valid age (13-100)."]
        ELSE [c0 EXCEPT !.message = "", !.isLoading = TRUE,
                        !.request = [to |-> "signup",
                                     body |-> [password |-> form.password,
                                               age |-> IF form.age # <<>> THEN age
                                                       ELSE AgeUndef]]]

\* App.handleLoginSuccess and App.handleSignupSuccess (App.jsx lines 30-42), after the
\* form stored token and user and before it set its timer
handleLoginSuccess(c) ==
    [c EXCEPT !.storage.authToken = "tok", !.storage.userData = "json",
              !.user = "u", !.isLoggedIn = TRUE, !.timer = TRUE,
              !.expelled = FALSE, !.loggedOff = FALSE]

\* a handleLogout that forgets the session only in memory
handleLogoutKeeping(c) ==
    [c EXCEPT !.isLoggedIn = FALSE, !.user = "null", !.loggedOff = TRUE]

\* App.handleLogout (App.jsx lines 44-52)
handleLogout(c) ==
    [c EXCEPT !.storage = [authToken |-> Absent, userData |-> Absent,
                           token |-> Absent, userEmail |-> Absent],
              !.isLoggedIn = FALSE, !.user = "null", !.loggedOff = TRUE]

\* a mount effect that trusts whatever userData holds
useEffectTrusting(c) ==
    IF c.storage.authToken # Absent /\ c.storage.userData # Absent
    THEN [c EXCEPT !.user = JSONparse(c.storage.userData), !.isLoggedIn = TRUE]
    ELSE c

\* the App's mount effect (App.jsx lines 12-28)
useEffect(c) ==
    IF c.storage.authToken # Absent /\ c.storage.userData # Absent
    THEN IF parses(c.storage.userData)
         THEN [c EXCEPT !.user = JSONparse(c.storage.userData), !.isLoggedIn = TRUE]
         ELSE [c EXCEPT !.storage.authToken = Absent, !.storage.userData = Absent]
    ELSE c

\* Dashboard.fetchUserProfile when it ends the session (Dashboard.jsx lines 19-22 and
\* 31-38): navigate('/login'), after a 401 with the stored credentials removed
toLogin(c, remove) ==
    [c EXCEPT !.storage.authToken = IF remove THEN Absent ELSE @,
              !.storage.userData = IF remove THEN Absent ELSE @,
              !.path = "/login", !.expelled = TRUE]

ClientFrame == UNCHANGED <<serverVars, cleanup>>

Reload ==
    /\ client # ClientOff
    /\ \E path \in Paths :
        client' = PageLoad(path, client.storage, client.expelled, client.loggedOff)
    /\ ClientFrame

AppEffect ==
    /\ client # ClientOff /\ ~client.mounted
    /\ client' = Render([useEffect(client) EXCEPT !.mounted = TRUE])
    /\ ClientFrame

\* a <Navigate replace> navigates
Redirect ==
    /\ client # ClientOff
    /\ client.view \in {"NavigateLogin", "NavigateDashboard"}
    /\ client' = Render([client EXCEPT !.path = IF client.view = "NavigateLogin"
                                                THEN "/login" ELSE "/dashboard"])
    /\ ClientFrame

\* the Dashboard's mount effect: fetchUserProfile up to the fetch
DashboardEffect ==
    /\ client # ClientOff /\ client.dash = "mounting"
    /\ client' = IF client.storage.authToken = Absent
                 THEN Render(toLogin(client, FALSE))
                 ELSE [client EXCEPT !.dash = "loading"]
    /\ ClientFrame

\* the profile request is answered
DashboardResponse ==
    /\ Idle /\ client.dash = "loading"
    /\ \E status \in {200, 401, 500} :
        client' = IF status = 401 THEN Render(toLogin(client, TRUE))
                  ELSE [client EXCEPT !.dash = IF status = 200 THEN "profile" ELSE "error"]
    /\ ClientFrame

\* the user follows a link or uses the history
Goto ==
    /\ Idle
    /\ \E path \in Paths : client' = Render([client EXCEPT !.path = path, !.event = "goto"])
    /\ ClientFrame

LoginSubmit ==
    /\ Idle /\ client.view = "Login" /\ ~client.isLoading
    /\ client' = [client EXCEPT !.event = "loginSubmit", !.message = "", !.isLoading = TRUE,
                                !.request = [to |-> "login"]]
    /\ ClientFrame

SignupSubmit ==
    /\ Idle /\ client.view = "Signup" /\ ~client.isLoading
    /\ \E form \in Forms :
        client' = IF checkValidity(form) THEN handleSubmit(client, form)
                  ELSE [client EXCEPT !.form = form, !.event = "signupSubmit",
                                      !.request = NoRequest, !.bubble = TRUE]
    /\ ClientFrame

\* the login or signup request is answered: with a token and a user, or with an error
FormResponse ==
    /\ Idle /\ client.isLoading
    /\ \E ok \in BOOLEAN :
        client' = IF ok
                  THEN Render([handleLoginSuccess(client) EXCEPT
                                  !.message = "Welcome", !.isLoading = FALSE])
                  ELSE [client EXCEPT !.message = "failed", !.isLoading = FALSE]
    /\ ClientFrame

\* the timer set after a login or signup fires: navigate('/dashboard')
TimerFires ==
    /\ Idle /\ client.timer
    /\ client' = Render([client EXCEPT !.path = "/dashboard", !.timer = FALSE])
    /\ ClientFrame

\* the Logout button of the landing page (App.jsx line 81)
LandingLogout ==
    /\ Idle /\ client.view = "LandingPage" /\ client.isLoggedIn
    /\ client' = Render([handleLogout(client) EXCEPT !.event = "landingLogout"])
    /\ ClientFrame

\* the Logout button of the dashboard (Dashboard.jsx lines 52-54 and 182): the route
\* renders <Dashboard /> without onLogout (App.jsx line 192), so `await onLogout()`
\* throws a TypeError and nothing else happens
DashboardLogout ==
    /\ Idle /\ client.view = "Dashboard" /\ client.dash = "profile"
    /\ client' = [client EXCEPT !.event = "dashboardLogout"]
    /\ ClientFrame

\* the button 'Back to Login' of the dashboard's error view (Dashboard.jsx line 164)
ErrorBack ==
    /\ Idle /\ client.dash = "error"
    /\ client' = Render([client EXCEPT !.path = "/login", !.event = "errorBack"])
    /\ ClientFrame

InitClient ==
    /\ env = [JWT_SECRET |-> "k1", MONGO_URI |-> "mongodb://db"]
    /\ JWT_SECRET = loadSecret(env.JWT_SECRET)
    /\ users = <<>> /\ plain = <<>> /\ now = 0 /\ res = NoResponse
    /\ issued = NothingIssued /\ loggedOut = FALSE /\ inflight = <<>>
    /\ cleanup = NoCleanup
    /\ \E path \in Paths, storage \in Storages :
        client = PageLoad(path, storage, FALSE, FALSE)

NextClient ==
    \/ Reload \/ AppEffect \/ Redirect \/ DashboardEffect \/ DashboardResponse
    \/ Goto \/ LoginSubmit \/ SignupSubmit \/ FormResponse \/ TimerFires
    \/ LandingLogout \/ DashboardLogout \/ ErrorBack

SpecClient == InitClient /\ [][NextClient]_vars

Stored(c) == c.storage.authToken # Absent /\ c.storage.userData # Absent

\* C23: in the client, isLoggedIn is true only if localStorage holds both authToken and
\* userData, and isLoggedIn is true exactly when the App's user is not null
C23_Original ==
    client # ClientOff =>
        /\ client.isLoggedIn => Stored(client)
        /\ client.isLoggedIn <=> client.user # "null"

\* C24: once the dashboard's profile fetch found no token or got a 401, the client does
\* not show the dashboard, or go to it, until the user has logged in again
C24_Original ==
    (client # ClientOff /\ client.expelled) =>
        client.view \notin {"Dashboard", "NavigateDashboard"}

\* C25: the Dashboard is rendered only while isLoggedIn is true, the login and signup
\* forms only while it is false; /dashboard redirects to /login while logged out, and
\* /login and /signup redirect to /dashboard while logged in
C25_Routes ==
    client # ClientOff =>
        /\ client.view = "Dashboard" => client.isLoggedIn
        /\ client.view \in {"Login", "Signup"} => ~client.isLoggedIn
        /\ (client.path = "/dashboard" /\ ~client.isLoggedIn) => client.view = "NavigateLogin"
        /\ (client.path \in {"/login", "/signup"} /\ client.isLoggedIn)
               => client.view = "NavigateDashboard"

C25_Witness ==
    /\ client # ClientOff /\ client.mounted /\ client.event = "goto"
    /\ client.path = "/dashboard" /\ ~client.isLoggedIn /\ client.view = "NavigateLogin"

\* C26: after a click on the dashboard's Logout button the stored authToken and userData
\* are removed and isLoggedIn is false
C26_Original ==
    (client # ClientOff /\ client.event = "dashboardLogout") =>
        /\ ~client.isLoggedIn
        /\ client.storage.authToken = Absent /\ client.storage.userData = Absent

\* C27: from App.handleLogout until the next login, also across page reloads, the four
\* keys are absent from localStorage, isLoggedIn is false and user is null, the
\* dashboard is not shown and /dashboard redirects to /login
C27_LoggedOut ==
    (client # ClientOff /\ client.loggedOff) =>
        /\ client.storage = [authToken |-> Absent, userData |-> Absent,
                             token |-> Absent, userEmail |-> Absent]
        /\ ~client.isLoggedIn /\ client.user = "null"
        /\ client.view # "Dashboard"
        /\ client.path = "/dashboard" => client.view = "NavigateLogin"

C27_Witness ==
    /\ client # ClientOff /\ client.loggedOff
    /\ client.event = "load" /\ client.mounted
    /\ client.path = "/dashboard" /\ client.view = "NavigateLogin"

\* C28: the App's mount effect logs the user in if and only if localStorage holds both
\* authToken and a userData that parses; with a userData that does not parse it removes
\* both keys; with a key absent it leaves localStorage as it was
C28_Restore ==
    [][(client # ClientOff /\ ~client.mounted /\ client'.mounted) =>
          /\ client'.isLoggedIn <=> (Stored(client) /\ parses(client.storage.userData))
          /\ (Stored(client) /\ ~parses(client.storage.userData)) =>
                 /\ client'.storage.authToken = Absent
                 /\ client'.storage.userData = Absent
                 /\ client'.storage.token = client.storage.token
                 /\ client'.storage.userEmail = client.storage.userEmail
          /\ (~Stored(client) \/ parses(client.storage.userData)) =>
                 client'.storage = client.storage]_vars

C28_Witness ==
    /\ client # ClientOff /\ client.mounted /\ client.event = "load"
    /\ ~client.isLoggedIn
    /\ client.storage.authToken = Absent /\ client.storage.userData = Absent
    /\ client.storage.token = "old"

\* the form's passwords differ, or it has an age below 13 or above 100
Refused(form) ==
    \/ form.password # form.confirmPassword
    \/ /\ form.age # <<>>
       /\ (valueAsTenths(form.age) < 10 * FormMinAge \/ valueAsTenths(form.age) > 10 * FormMaxAge)

Alphabet == {"<", "s", ">", " "}

Texts ==
    UNION {[1..n -> Alphabet] : n \in 0..MaxText}
    \cup {Completion,
          M_INST, M_INSTEnd, M_sEnd,
          <<"<", "/">> \o M_sEnd \o <<"s", ">">>,
          <<"[", "I", "N", "S">> \o M_INST \o <<"T", "]">>,
          <<"[">> \o M_INST \o <<"/", "I", "N", "S", "T", "]">>,
          <<"[", "/">> \o M_INSTEnd \o <<"I", "N", "S", "T", "]">>,
          <<"<">> \o M_INST \o <<"s", ">">>,
          <<" ">> \o M_INST \o <<" ", "a", " ">> \o M_INSTEnd \o <<" ">>}

InitClean ==
    /\ env = [JWT_SECRET |-> "k1", MONGO_URI |-> "mongodb://db"]
    /\ JWT_SECRET = loadSecret(env.JWT_SECRET)
    /\ users = <<>> /\ plain = <<>> /\ now = 0 /\ res = NoResponse
    /\ issued = NothingIssued /\ loggedOut = FALSE /\ inflight = <<>>
    /\ client = ClientOff
    /\ \E text \in Texts : cleanup = [NoCleanup EXCEPT !.text = text]

\* getAIResponse is called and the inference service answers 200 with cleanup.text
Clean ==
    /\ ~cleanup.done
    /\ LET r == getAIResponse(MsgHi, Ok(cleanup.text))
       IN  cleanup' = [cleanup EXCEPT !.out = r.value, !.threw = r.threw, !.done = TRUE]
    /\ UNCHANGED <<serverVars, client>>

NextClean == Clean

SpecClean == InitClean /\ [][NextClean]_vars

\* s contains one of the markers
marked(s) ==
    \E i \in 1..Len(s), m \in Markup : startsWith(SubSeq(s, i, Len(s)), m)

\* C30: the string returned by getAIResponse contains none of the markers <s>, </s>,
\* [INST], [/INST], has no leading or trailing whitespace, and is left unchanged by the
\* cleanup
C30_Original ==
    (cleanup.done /\ ~cleanup.threw) =>
        /\ ~marked(cleanup.out)
        /\ trim(cleanup.out) = cleanup.out
        /\ cleanResponse(cleanup.out) = cleanup.out

====
